---- MODULE Spec2Model ----
(***************************************************************************)
(* Model of scripts/sample-images: the run segmenter build_runs, the       *)
(* renderer main() of render-outline-svg.py and the validator              *)
(* validate-svg.py.                                                        *)
(*                                                                         *)
(* Characters are one-character strings, a line is a sequence of them.     *)
(* A feature mapping (a Python dict tag -> int) is a function whose        *)
(* DOMAIN is the set of its tags.  Python's None is the empty set and a    *)
(* present value v is {v}.                                                 *)
(***************************************************************************)
EXTENDS Integers, Sequences, FiniteSets, TLC

VARIABLES
    \* ---- build_runs (its five parameters, its result) ----
    line, hot_set, hot_feature_map, base_features, legacy_hot_features,
    runs, rpc,
    \* ---- validate-svg.py: its arguments, the file at the path, its progress ----
    v_argc, v_file, v_pc, v_status, v_stdout, v_stderr,
    \* ---- render-outline-svg.py: the command line, the configuration file,
    \* the font file; main()'s position and locals; the element tree, the
    \* output file, the streams and the exit status ----
    argv, config, font, pc, m, svg, out_file, r_stdout, r_stderr, r_status

runsVars == <<line, hot_set, hot_feature_map, base_features,
              legacy_hot_features, runs, rpc>>

valVars == <<v_argc, v_file, v_pc, v_status, v_stdout, v_stderr>>

renderVars == <<argv, config, font, pc, m, svg, out_file, r_stdout, r_stderr,
                r_status>>

vars == <<runsVars, valVars, renderVars>>

----------------------------------------------------------------------------
\* Bounds of the model.
MaxLineLen == 3
\* File sizes are drawn from MinSvgSize - SizeSpread .. MinSvgSize + SizeSpread.
SizeSpread == 3
\* The text grid has at most MaxRows rows.
MaxRows == 2

\* The characters lines are drawn from, and those an override map may name.
Chars == {"A", "V", "x"}
HotCandidates == {"A", "V"}

\* The feature tags, in the order Python's sorted() puts their strings.
SortedTags == <<"calt", "kern", "ss01">>

EmptyMap == [t \in {} |-> 0]
None == {}
Some(v) == {v}
TheValue(o) == CHOOSE v \in o : TRUE

\* All dicts with tags among T and values 0 or 1.
FeatureMaps(T) == UNION {[S -> {0, 1}] : S \in SUBSET T}
\* A dict with the single item t: v.
Single(t, v) == [k \in {t} |-> v]

\* All lines of at most n characters.
RECURSIVE LinesUpTo(_)
LinesUpTo(n) ==
    IF n = 0 THEN {<<>>}
    ELSE LET shorter == LinesUpTo(n - 1)
         IN  shorter \cup {Append(l, c) : l \in {s \in shorter : Len(s) = n - 1}, c \in Chars}

----------------------------------------------------------------------------
\* {**a, **b}: the items of both, b winning on a shared tag.
Merge(a, b) ==
    [t \in DOMAIN a \cup DOMAIN b |-> IF t \in DOMAIN b THEN b[t] ELSE a[t]]

\* d.get(k, {})
GetOrEmpty(d, k) == IF k \in DOMAIN d THEN d[k] ELSE EmptyMap

\* bool(d) of a dict: a dict is true when it has an item.
Truthy(d) == DOMAIN d /= {}

AlwaysOn == Single("calt", 1)

\* Faulty variants of CharFeatures: the base wins over the overrides; the
\* base features stand in for the legacy ones.
CharFeaturesBaseWins(ch, hs, hfm, base, legacy) ==
    IF Truthy(hfm)
    THEN IF ch \in hs
         THEN Merge(Merge(GetOrEmpty(hfm, ch), base), AlwaysOn)
         ELSE AlwaysOn
    ELSE IF ch \in hs THEN Merge(legacy, AlwaysOn) ELSE AlwaysOn

CharFeaturesLegacyIsBase(ch, hs, hfm, base, legacy) ==
    IF Truthy(hfm)
    THEN IF ch \in hs
         THEN Merge(Merge(base, GetOrEmpty(hfm, ch)), AlwaysOn)
         ELSE AlwaysOn
    ELSE IF ch \in hs THEN Merge(base, AlwaysOn) ELSE AlwaysOn

\* build_runs, lines 45-59: the feature dict of one character.
CharFeatures(ch, hs, hfm, base, legacy) ==
    IF Truthy(hfm)
    THEN IF ch \in hs
         THEN Merge(Merge(base, GetOrEmpty(hfm, ch)), AlwaysOn)
         ELSE AlwaysOn
    ELSE IF ch \in hs THEN Merge(legacy, AlwaysOn) ELSE AlwaysOn

\* Faulty variant of FeatureKey: the tags alone, the values dropped.
FeatureKeyTagsOnly(f) ==
    LET tags == SelectSeq(SortedTags, LAMBDA t : t \in DOMAIN f)
    IN  [i \in 1..Len(tags) |-> <<tags[i], 0>>]

\* build_runs, line 61: tuple(sorted(char_features.items())).
FeatureKey(f) ==
    LET tags == SelectSeq(SortedTags, LAMBDA t : t \in DOMAIN f)
    IN  [i \in 1..Len(tags) |-> <<tags[i], f[tags[i]]>>]

\* The loop's variables before the first character (lines 38-42).
LoopInit ==
    [runs |-> <<>>, cur |-> <<>>, cur_key |-> None, cur_hot |-> FALSE,
     cur_features |-> None]

Run(text, hot, features) == [text |-> text, hot |-> hot, features |-> features]

\* Faulty variant of LoopStep: the hot flag of a run is that of its last character.
LoopStepLastHot(st, ch, hs, hfm, base, legacy) ==
    LET is_hot == ch \in hs
        char_features == CharFeatures(ch, hs, hfm, base, legacy)
        key == FeatureKey(char_features)
    IN  IF st.cur_key = None \/ st.cur_key = Some(key)
        THEN [st EXCEPT !.cur = Append(@, ch), !.cur_hot = is_hot,
                        !.cur_features = Some(char_features),
                        !.cur_key = Some(key)]
        ELSE [runs |-> Append(st.runs,
                              Run(st.cur, st.cur_hot, TheValue(st.cur_features))),
              cur |-> <<ch>>, cur_hot |-> is_hot,
              cur_features |-> Some(char_features), cur_key |-> Some(key)]

\* build_runs, lines 44-72: one iteration of the loop over the line.
LoopStep(st, ch, hs, hfm, base, legacy) ==
    LET is_hot == ch \in hs
        char_features == CharFeatures(ch, hs, hfm, base, legacy)
        key == FeatureKey(char_features)
    IN  IF st.cur_key = None \/ st.cur_key = Some(key)
        THEN [st EXCEPT !.cur = Append(@, ch), !.cur_hot = @ \/ is_hot,
                        !.cur_features = Some(char_features),
                        !.cur_key = Some(key)]
        ELSE [runs |-> Append(st.runs,
                              Run(st.cur, st.cur_hot, TheValue(st.cur_features))),
              cur |-> <<ch>>, cur_hot |-> is_hot,
              cur_features |-> Some(char_features), cur_key |-> Some(key)]

\* Faulty variant of Flush: the pending run is never appended.
FlushNever(st) == st.runs

\* build_runs, lines 74-76: the pending run is appended when it has text.
Flush(st) ==
    IF st.cur /= <<>>
    THEN Append(st.runs, Run(st.cur, st.cur_hot, TheValue(st.cur_features)))
    ELSE st.runs

RECURSIVE LoopFrom(_, _, _, _, _, _, _)
LoopFrom(st, l, i, hs, hfm, base, legacy) ==
    IF i > Len(l) THEN st
    ELSE LoopFrom(LoopStep(st, l[i], hs, hfm, base, legacy), l, i + 1,
                  hs, hfm, base, legacy)

build_runs(l, hs, hfm, base, legacy) ==
    Flush(LoopFrom(LoopInit, l, 1, hs, hfm, base, legacy))

----------------------------------------------------------------------------
\* The font file, as the two libraries read it.  Lengths along x and y are
\* kept exact: a length is the integer n that stands for n / (2 * unitsPerEm)
\* user units, so that scale = fontSize / unitsPerEm and the halvings of the
\* centring are exact.  (The program computes in binary floating point; the
\* rounding of its last bits is not modelled.)

NoPairs == [first : {}, second : {}, dx_advance : {}, dx_placement : {}]

\* head.unitsPerEm, hhea.ascent, OS/2 typo metrics; for each character the
\* glyph name HarfBuzz reports and its advance; the glyph set fontTools
\* exposes and the glyphs with a non-empty outline; the kerning pairs (the
\* first glyph's advance and the second glyph's placement are adjusted).
FontTable(f) ==
    IF f = "mono"
    THEN [upem |-> 16, ascent |-> 14, typo_ascender |-> 12, typo_descender |-> -4,
          glyph_name |-> [c \in {"A", "V", " "} |-> IF c = " " THEN "space" ELSE c],
          advance |-> [c \in {"A", "V", " "} |-> 10],
          glyph_set |-> {"A", "V", "space"},
          outlined |-> {"A", "V"},
          pairs |-> NoPairs]
    ELSE [upem |-> 10, ascent |-> 9, typo_ascender |-> 8, typo_descender |-> -2,
          glyph_name |-> [c \in {"A", "V", " "} |-> IF c = " " THEN "gid3" ELSE c],
          advance |-> [c \in {"A", "V", " "} |-> IF c = " " THEN 3 ELSE 7],
          glyph_set |-> {"A", "V"},
          outlined |-> {"A", "V"},
          pairs |-> {[first |-> "A", second |-> "V", dx_advance |-> -2,
                      dx_placement |-> -1]}]

Fonts == {"mono", "prop"}

\* HarfBuzz applies kerning unless the feature dict turns it off.
KernOn(features) == "kern" \notin DOMAIN features \/ features["kern"] /= 0

PairOf(f, a, b) == {p \in FontTable(f).pairs : p.first = a /\ p.second = b}

\* shape_run, lines 18-34: the glyphs of one buffer, shaped as a whole.
shape_run(f, text, features) ==
    [k \in 1..Len(text) |->
        LET next == IF k < Len(text) /\ KernOn(features)
                    THEN PairOf(f, text[k], text[k + 1]) ELSE {}
            prev == IF k > 1 /\ KernOn(features)
                    THEN PairOf(f, text[k - 1], text[k]) ELSE {}
        IN  [glyph_name |-> FontTable(f).glyph_name[text[k]],
             x_advance |-> FontTable(f).advance[text[k]]
                           + (IF next = {} THEN 0 ELSE TheValue(next).dx_advance),
             x_offset |-> IF prev = {} THEN 0 ELSE TheValue(prev).dx_placement,
             y_offset |-> 0]]

\* v font units times scale.
Scaled(v, font_size) == 2 * v * font_size
\* p user units.
Px(p, upem) == 2 * upem * p

\* f"{v:.3f}": the thousandths nearest to n / (2 * upem), ties to even.
Fmt3(n, upem) ==
    LET den == 2 * upem
        q == (n * 1000) \div den
        r == (n * 1000) % den
    IN  IF 2 * r < den THEN q
        ELSE IF 2 * r > den THEN q + 1
        ELSE IF q % 2 = 0 THEN q ELSE q + 1

RECURSIVE SumAdvance(_)
SumAdvance(glyphs) ==
    IF glyphs = <<>> THEN 0 ELSE glyphs[1].x_advance + SumAdvance(Tail(glyphs))

RECURSIVE MaxOf(_)
MaxOf(ws) ==
    IF Len(ws) = 1 THEN ws[1]
    ELSE LET rest == MaxOf(Tail(ws)) IN IF ws[1] >= rest THEN ws[1] ELSE rest

----------------------------------------------------------------------------
\* The configuration file.

FourSpaces == <<" ", " ", " ", " ">>

Drop(d, k) == [j \in DOMAIN d \ {k} |-> d[j]]

RECURSIVE DropPath(_, _)
DropPath(d, path) ==
    IF path = <<>> THEN d
    ELSE IF Len(path) = 1 THEN Drop(d, path[1])
    ELSE [d EXCEPT ![path[1]] = DropPath(@, Tail(path))]

LightTheme == [background |-> "#ffffff", body |-> "#111111", stress |-> "#ff0000"]
DarkTheme == [background |-> "#000000", body |-> "#eeeeee", stress |-> "#ff5555"]

\* The keys the interface description calls required, as paths.
RequiredPaths ==
    {<<"themes">>, <<"themes", "light">>, <<"themes", "dark">>}
    \cup {<<"themes", t, k>> : t \in {"light", "dark"},
                              k \in {"background", "body", "stress"}}
    \cup {<<"hotChars">>, <<"textGrid">>, <<"fontSize">>, <<"lineHeight">>,
          <<"width">>, <<"height">>}

RowChoices == {<<<<"A", "V">>, <<>>>>, <<<<"A">>, <<"V">>>>}

RECURSIVE GridsUpTo(_)
GridsUpTo(n) ==
    IF n = 0 THEN {<<>>}
    ELSE LET shorter == GridsUpTo(n - 1)
         IN  shorter \cup {Append(g, r) : g \in {s \in shorter : Len(s) = n - 1},
                                           r \in RowChoices}

\* The optional keys: the legacy features alone (the regression test's
\* configuration), none at all, or base features with per-character overrides.
OptionalChoices ==
    {[features |-> Single("kern", 0)],
     EmptyMap,
     [baseFeatures |-> Single("kern", 1),
      hotCharFeatures |-> [upright |-> [V |-> Single("kern", 0)]]]}

ConfigWidths == {100, 200}

FullConfig(grid, optional, w) ==
    Merge([themes |-> [light |-> LightTheme, dark |-> DarkTheme],
           hotChars |-> [upright |-> <<"A", "V">>],
           textGrid |-> grid,
           fontSize |-> 12,
           lineHeight |-> 1,
           width |-> w,
           height |-> 200],
          optional)

Configs ==
    {DropPath(FullConfig(grid, optional, w), missing) :
        grid \in GridsUpTo(MaxRows), optional \in OptionalChoices,
        w \in ConfigWidths, missing \in RequiredPaths \cup {<<>>}}

\* The basename of the output path, split at its dots.
OutNames == {<<"out", "light", "svg">>, <<"out", "dark", "svg">>}
Slopes == {"upright", "italic"}

\* main()'s locals before they are assigned.
Frame0 ==
    [theme |-> EmptyMap, hot_chars |-> {}, lines |-> <<>>,
     base_features |-> EmptyMap, hot_feature_map |-> EmptyMap,
     legacy_hot_features |-> EmptyMap, font_size |-> 0, line_height_ratio |-> 0,
     upem |-> 0, ascent |-> 0, line_height |-> 0, line_widths |-> <<>>,
     width |-> 0, height |-> 0, x |-> 0, y |-> 0, i |-> 0, ri |-> 0, gi |-> 0,
     color |-> "", laid |-> 0]

NoSvg == [attrib |-> EmptyMap, children |-> <<>>]

\* The renderer not running (the other programs' specifications).
RenderIdle ==
    /\ argv = [n |-> 0, slope |-> "upright", out_path |-> <<>>]
    /\ config = EmptyMap
    /\ font = "mono"
    /\ pc = "idle"
    /\ m = Frame0
    /\ svg = NoSvg
    /\ out_file = None
    /\ r_stdout = <<>>
    /\ r_stderr = <<>>
    /\ r_status = None

----------------------------------------------------------------------------
\* validate-svg.py

\* The size below which the validator rejects a file (line 18).
MinSvgSize == 200

\* What the path names: nothing, a directory, or a regular file with a size
\* and a content.
Files ==
    {[kind |-> "missing", size |-> 0, content |-> "none"]}
    \cup [kind : {"dir"}, size : (MinSvgSize - SizeSpread)..(MinSvgSize + SizeSpread),
          content : {"none"}]
    \cup [kind : {"file"}, size : (MinSvgSize - SizeSpread)..(MinSvgSize + SizeSpread),
          content : {"svg", "garbage"}]

\* The validator not running (the other programs' specifications).
ValIdle ==
    /\ v_argc = 0
    /\ v_file = [kind |-> "missing", size |-> 0, content |-> "none"]
    /\ v_pc = "idle"
    /\ v_status = None
    /\ v_stdout = <<>>
    /\ v_stderr = <<>>

\* build_runs not running (the other programs' specifications).
RunsIdle ==
    /\ line = <<>>
    /\ hot_set = {}
    /\ hot_feature_map = EmptyMap
    /\ base_features = EmptyMap
    /\ legacy_hot_features = EmptyMap
    /\ runs = <<>>
    /\ rpc = "idle"

\* v_argc is the number of arguments after the script name.
InitValidate ==
    /\ RunsIdle
    /\ RenderIdle
    /\ v_argc \in {0, 1, 2}
    /\ v_file \in Files
    /\ v_pc = "args"
    /\ v_status = None
    /\ v_stdout = <<>>
    /\ v_stderr = <<>>

\* os.path.isfile(svg_path)
IsFile(f) == f.kind = "file"

\* Faulty variant of TooSmall: the limit itself is rejected too.
TooSmallInclusive(size) == size <= MinSvgSize

\* line 18: size < 200
TooSmall(size) == size < MinSvgSize

ValExit(code) ==
    /\ v_pc' = "exit"
    /\ v_status' = Some(code)

\* lines 7-9: len(sys.argv) < 2
ValCheckArgs ==
    /\ v_pc = "args"
    /\ IF v_argc + 1 < 2
       THEN /\ v_stderr' = Append(v_stderr, "Usage")
            /\ ValExit(1)
       ELSE /\ v_pc' = "isfile"
            /\ UNCHANGED <<v_status, v_stderr>>
    /\ UNCHANGED <<v_argc, v_file, v_stdout>>
    /\ UNCHANGED <<runsVars, renderVars>>

\* lines 11-15
ValCheckIsFile ==
    /\ v_pc = "isfile"
    /\ IF ~IsFile(v_file)
       THEN /\ v_stderr' = Append(v_stderr, "File not found")
            /\ ValExit(1)
       ELSE /\ v_pc' = "size"
            /\ UNCHANGED <<v_status, v_stderr>>
    /\ UNCHANGED <<v_argc, v_file, v_stdout>>
    /\ UNCHANGED <<runsVars, renderVars>>

\* lines 17-20
ValCheckSize ==
    /\ v_pc = "size"
    /\ IF TooSmall(v_file.size)
       THEN /\ v_stderr' = Append(v_stderr, "SVG too small")
            /\ ValExit(1)
       ELSE /\ v_pc' = "print"
            /\ UNCHANGED <<v_status, v_stderr>>
    /\ UNCHANGED <<v_argc, v_file, v_stdout>>
    /\ UNCHANGED <<runsVars, renderVars>>

\* line 22, and the end of the script: status 0.
ValPrint ==
    /\ v_pc = "print"
    /\ v_stdout' = Append(v_stdout, "SVG valid")
    /\ ValExit(0)
    /\ UNCHANGED <<v_argc, v_file, v_stderr>>
    /\ UNCHANGED <<runsVars, renderVars>>

NextValidate ==
    \/ ValCheckArgs
    \/ ValCheckIsFile
    \/ ValCheckSize
    \/ ValPrint

SpecValidate == InitValidate /\ [][NextValidate]_vars

\* C9: the validator exits 1 exactly when no file argument is given, the path
\* is not an existing regular file, or the file is smaller than 200 bytes;
\* otherwise it prints the confirmation and exits 0.  The outcome depends on
\* nothing else (not on the content), and the file is never changed.
C9_ValidatorOutcome ==
    /\ [](v_pc = "exit" =>
            /\ v_status \in {Some(0), Some(1)}
            /\ v_status = Some(1) <=>
                  (v_argc = 0 \/ v_file.kind /= "file" \/ v_file.size < MinSvgSize)
            /\ v_status = Some(0) <=> v_stdout = <<"SVG valid">>
            /\ v_status = Some(1) <=> Len(v_stderr) = 1)
    /\ [](v_pc /= "exit" => v_status = None /\ v_stdout = <<>>)
    /\ [][v_file' = v_file]_vars

C9_Witness ==
    /\ v_pc = "exit"
    /\ v_status = Some(0)
    /\ v_file.size = MinSvgSize
    /\ v_file.content = "garbage"
    /\ v_argc = 2

----------------------------------------------------------------------------
\* The inputs build_runs is applied to.
BaseChoices == FeatureMaps({"kern"})
LegacyChoices == FeatureMaps({"kern"}) \cup {Single("calt", 0)}
OverrideChoices ==
    {EmptyMap, Single("kern", 1), Single("calt", 0), Single("ss01", 1)}
HotFeatureMaps == UNION {[S -> OverrideChoices] : S \in SUBSET HotCandidates}

InitRuns ==
    /\ line \in LinesUpTo(MaxLineLen)
    /\ hot_set \in SUBSET Chars
    /\ hot_feature_map \in HotFeatureMaps
    /\ base_features \in BaseChoices
    /\ legacy_hot_features \in LegacyChoices
    /\ runs = <<>>
    /\ rpc = "call"
    /\ ValIdle
    /\ RenderIdle

BuildRuns ==
    /\ rpc = "call"
    /\ runs' = build_runs(line, hot_set, hot_feature_map, base_features,
                          legacy_hot_features)
    /\ rpc' = "returned"
    /\ UNCHANGED <<line, hot_set, hot_feature_map, base_features,
                   legacy_hot_features>>
    /\ UNCHANGED <<valVars, renderVars>>

NextRuns == BuildRuns

SpecRuns == InitRuns /\ [][NextRuns]_vars

----------------------------------------------------------------------------
\* render-outline-svg.py, main()

Has(d, k) == k \in DOMAIN d
GetOr(d, k, default) == IF k \in DOMAIN d THEN d[k] ELSE default
Range(seq) == {seq[k] : k \in 1..Len(seq)}

\* ".dark." in basename: a component "dark" with a dot on both sides.
IsDarkName(basename) == \E k \in 2..(Len(basename) - 1) : basename[k] = "dark"

\* Faulty variant of ThemeKey: the light theme whatever the file name.
ThemeKeyAlwaysLight(out_path) == "light"

\* line 93: which theme the output file name selects.
ThemeKey(out_path) == IF IsDarkName(out_path) THEN "dark" ELSE "light"

\* lines 93-103: the first subscript that raises KeyError, if any.
LoadKeyError(cfg, out_path) ==
    IF ~Has(cfg, "themes") THEN Some("themes")
    ELSE IF ~Has(cfg["themes"], ThemeKey(out_path)) THEN Some(ThemeKey(out_path))
    ELSE IF ~Has(cfg, "hotChars") THEN Some("hotChars")
    ELSE IF ~Has(cfg, "textGrid") THEN Some("textGrid")
    ELSE IF ~Has(cfg, "fontSize") THEN Some("fontSize")
    ELSE IF ~Has(cfg, "lineHeight") THEN Some("lineHeight")
    ELSE None

\* line 97
Lines(text_grid) ==
    [k \in 1..Len(text_grid) |-> text_grid[k][1] \o FourSpaces \o text_grid[k][2]]

\* The runs of a line, as both passes compute them (lines 123-129, 154-160).
RunsOf(fr, l) ==
    build_runs(l, fr.hot_chars, fr.hot_feature_map, fr.base_features,
               fr.legacy_hot_features)

\* lines 122-131: the width of one line, run by run.
RECURSIVE RunsWidth(_, _, _)
RunsWidth(rs, f, font_size) ==
    IF rs = <<>> THEN 0
    ELSE Scaled(SumAdvance(shape_run(f, rs[1].text, rs[1].features)), font_size)
         + RunsWidth(Tail(rs), f, font_size)

PadX == 40

\* Faulty variant of CanvasWidth: the padding is added once, not on both sides.
CanvasWidthOnePad(config_width, line_widths, upem) ==
    LET max_line_width == IF line_widths /= <<>> THEN MaxOf(line_widths) ELSE 0
        wanted == Px(config_width, upem)
        needed == max_line_width + Px(PadX, upem)
    IN  IF wanted >= needed THEN wanted ELSE needed

\* lines 134-136
CanvasWidth(config_width, line_widths, upem) ==
    LET max_line_width == IF line_widths /= <<>> THEN MaxOf(line_widths) ELSE 0
        wanted == Px(config_width, upem)
        needed == max_line_width + Px(PadX * 2, upem)
    IN  IF wanted >= needed THEN wanted ELSE needed

\* line 153
StartX(width, line_width) == (width - line_width) \div 2

\* line 175
TranslateX(x, g, font_size) == x + Scaled(g.x_offset, font_size)

\* Faulty variant of PenAdvance: the glyph's offset is carried into the pen position.
PenAdvancePlusOffset(x, g, font_size) ==
    x + Scaled(g.x_advance + g.x_offset, font_size)

\* line 187
PenAdvance(x, g, font_size) == x + Scaled(g.x_advance, font_size)

\* lines 165-174: the glyph is in the glyph set and its outline is not empty.
EmitsPath(f, g) ==
    /\ g.glyph_name \in FontTable(f).glyph_set
    /\ g.glyph_name \in FontTable(f).outlined

Raise(key) ==
    /\ pc' = "exit"
    /\ r_status' = Some(1)
    /\ r_stderr' = Append(r_stderr, <<"KeyError", key>>)

InitRender ==
    /\ RunsIdle
    /\ ValIdle
    /\ argv \in [n : {3, 4}, slope : Slopes, out_path : OutNames]
    /\ config \in Configs
    /\ font \in Fonts
    /\ pc = "start"
    /\ m = Frame0
    /\ svg = NoSvg
    /\ out_file = None
    /\ r_stdout = <<>>
    /\ r_stderr = <<>>
    /\ r_status = None

\* lines 80-87
CheckArgs ==
    /\ pc = "start"
    /\ IF argv.n + 1 /= 5
       THEN /\ pc' = "exit"
            /\ r_status' = Some(1)
            /\ r_stderr' = Append(r_stderr, <<"Usage">>)
       ELSE /\ pc' = "load"
            /\ UNCHANGED <<r_status, r_stderr>>
    /\ UNCHANGED <<argv, config, font, m, svg, out_file, r_stdout>>
    /\ UNCHANGED <<runsVars, valVars>>

\* lines 89-103
LoadConfig ==
    /\ pc = "load"
    /\ LET err == LoadKeyError(config, argv.out_path)
       IN  IF err /= None
           THEN /\ Raise(TheValue(err))
                /\ UNCHANGED m
           ELSE /\ m' = [m EXCEPT
                        !.theme = config["themes"][ThemeKey(argv.out_path)],
                        !.hot_chars = Range(GetOr(config["hotChars"], argv.slope, <<>>)),
                        !.lines = Lines(config["textGrid"]),
                        !.base_features = GetOr(config, "baseFeatures", EmptyMap),
                        !.hot_feature_map =
                            GetOr(GetOr(config, "hotCharFeatures", EmptyMap),
                                  argv.slope, EmptyMap),
                        !.legacy_hot_features = GetOr(config, "features", EmptyMap),
                        !.font_size = config["fontSize"],
                        !.line_height_ratio = config["lineHeight"]]
                /\ pc' = "font"
                /\ UNCHANGED <<r_status, r_stderr>>
    /\ UNCHANGED <<argv, config, font, svg, out_file, r_stdout>>
    /\ UNCHANGED <<runsVars, valVars>>

\* lines 105-118
LoadFont ==
    /\ pc = "font"
    /\ m' = [m EXCEPT
             !.upem = FontTable(font).upem,
             !.ascent = FontTable(font).ascent,
             !.line_height =
                 2 * (FontTable(font).typo_ascender - FontTable(font).typo_descender)
                   * m.font_size * m.line_height_ratio]
    /\ pc' = "measure"
    /\ UNCHANGED <<argv, config, font, svg, out_file, r_stdout, r_stderr, r_status>>
    /\ UNCHANGED <<runsVars, valVars>>

\* lines 120-132
Measure ==
    /\ pc = "measure"
    /\ m' = [m EXCEPT !.line_widths =
                 [k \in 1..Len(m.lines) |->
                     RunsWidth(RunsOf(m, m.lines[k]), font, m.font_size)]]
    /\ pc' = "canvas"
    /\ UNCHANGED <<argv, config, font, svg, out_file, r_stdout, r_stderr, r_status>>
    /\ UNCHANGED <<runsVars, valVars>>

\* lines 134-150
Canvas ==
    /\ pc = "canvas"
    /\ IF ~Has(config, "width")
       THEN Raise("width") /\ UNCHANGED <<m, svg>>
       ELSE IF ~Has(config, "height")
       THEN Raise("height") /\ UNCHANGED <<m, svg>>
       ELSE LET width == CanvasWidth(config["width"], m.line_widths, m.upem)
                height == Px(config["height"], m.upem)
                block_height == Len(m.lines) * m.line_height
            IN  /\ m' = [m EXCEPT
                         !.width = width,
                         !.height = height,
                         !.y = (height - block_height) \div 2
                               + Scaled(m.ascent, m.font_size)]
                /\ svg' = [attrib |-> [xmlns |-> "http://www.w3.org/2000/svg",
                                       width |-> width,
                                       height |-> height,
                                       viewBox |-> <<0, 0, width, height>>],
                           children |-> <<>>]
                /\ pc' = "line"
                /\ UNCHANGED <<r_status, r_stderr>>
    /\ UNCHANGED <<argv, config, font, out_file, r_stdout>>
    /\ UNCHANGED <<runsVars, valVars>>

\* lines 152-153: the next line of the outer loop, or the end of the loop.
BeginLine ==
    /\ pc = "line"
    /\ IF m.i >= Len(m.lines)
       THEN /\ pc' = "write"
            /\ UNCHANGED m
       ELSE /\ m' = [m EXCEPT
                     !.i = m.i + 1,
                     !.x = StartX(m.width, m.line_widths[m.i + 1]),
                     !.ri = 0,
                     !.laid = 0]
            /\ pc' = "run"
    /\ UNCHANGED <<argv, config, font, svg, out_file, r_stdout, r_stderr, r_status>>
    /\ UNCHANGED <<runsVars, valVars>>

\* lines 154-162: the next run of the line is shaped and its colour looked
\* up; after the last run, line 188.
BeginRun ==
    /\ pc = "run"
    /\ LET rs == RunsOf(m, m.lines[m.i])
       IN  IF m.ri >= Len(rs)
           THEN /\ m' = [m EXCEPT !.y = m.y + m.line_height]
                /\ pc' = "line"
                /\ UNCHANGED <<r_status, r_stderr>>
           ELSE LET key == IF rs[m.ri + 1].hot THEN "stress" ELSE "body"
                IN  IF ~Has(m.theme, key)
                    THEN /\ Raise(key)
                         /\ m' = [m EXCEPT !.ri = m.ri + 1]
                    ELSE /\ m' = [m EXCEPT !.ri = m.ri + 1, !.gi = 0,
                                           !.color = m.theme[key]]
                         /\ pc' = "glyph"
                         /\ UNCHANGED <<r_status, r_stderr>>
    /\ UNCHANGED <<argv, config, font, svg, out_file, r_stdout>>
    /\ UNCHANGED <<runsVars, valVars>>

\* lines 163-187: one glyph of the run.
LayoutGlyph ==
    /\ pc = "glyph"
    /\ LET run == RunsOf(m, m.lines[m.i])[m.ri]
           glyphs == shape_run(font, run.text, run.features)
       IN  IF m.gi >= Len(glyphs)
           THEN /\ pc' = "run"
                /\ UNCHANGED <<m, svg>>
           ELSE LET g == glyphs[m.gi + 1]
                    path == [tag |-> "path",
                             d |-> g.glyph_name,
                             fill |-> m.color,
                             tx |-> Fmt3(TranslateX(m.x, g, m.font_size), m.upem),
                             ty |-> Fmt3(m.y - Scaled(g.y_offset, m.font_size), m.upem),
                             scale |-> <<m.font_size, m.upem>>,
                             line |-> m.i,
                             glyph |-> m.laid + 1]
                IN  /\ svg' = IF EmitsPath(font, g)
                              THEN [svg EXCEPT !.children = Append(@, path)]
                              ELSE svg
                    /\ m' = [m EXCEPT !.gi = m.gi + 1,
                                      !.x = PenAdvance(m.x, g, m.font_size),
                                      !.laid = m.laid + 1]
                    /\ pc' = "glyph"
    /\ UNCHANGED <<argv, config, font, out_file, r_stdout, r_stderr, r_status>>
    /\ UNCHANGED <<runsVars, valVars>>

\* lines 190-192
WriteTree ==
    /\ pc = "write"
    /\ out_file' = Some(svg)
    /\ pc' = "print"
    /\ UNCHANGED <<argv, config, font, m, svg, r_stdout, r_stderr, r_status>>
    /\ UNCHANGED <<runsVars, valVars>>

\* line 193, and the return from main(): status 0.
PrintWrote ==
    /\ pc = "print"
    /\ r_stdout' = Append(r_stdout, "Wrote")
    /\ pc' = "exit"
    /\ r_status' = Some(0)
    /\ UNCHANGED <<argv, config, font, m, svg, out_file, r_stderr>>
    /\ UNCHANGED <<runsVars, valVars>>

NextRender ==
    \/ CheckArgs
    \/ LoadConfig
    \/ LoadFont
    \/ Measure
    \/ Canvas
    \/ BeginLine
    \/ BeginRun
    \/ LayoutGlyph
    \/ WriteTree
    \/ PrintWrote

SpecRender == InitRender /\ [][NextRender]_vars

----------------------------------------------------------------------------
\* Reading the result of build_runs.

RECURSIVE ConcatTexts(_)
ConcatTexts(rs) ==
    IF rs = <<>> THEN <<>> ELSE rs[1].text \o ConcatTexts(Tail(rs))

\* The position in the line of the last character of run k (0 for k = 0).
RECURSIVE RunEnd(_, _)
RunEnd(rs, k) == IF k = 0 THEN 0 ELSE RunEnd(rs, k - 1) + Len(rs[k].text)

\* The run that holds position i of the line.
RunOf(rs, i) == CHOOSE k \in 1..Len(rs) : RunEnd(rs, k - 1) < i /\ i <= RunEnd(rs, k)

\* What the code resolves character i of the line to.
Resolved(i) ==
    CharFeatures(line[i], hot_set, hot_feature_map, base_features,
                 legacy_hot_features)

\* The adjacent pairs (i, i+1) of the line whose resolved feature sets differ.
DifferingPairs == {i \in 1..(Len(line) - 1) : Resolved(i) /= Resolved(i + 1)}

Returned == rpc = "returned"

\* C1: build_runs returns runs that are all non-empty and whose texts,
\* concatenated in output order, equal the input line; the empty line yields
\* zero runs and a one-character line exactly one run.
C1_LosslessPartition ==
    Returned =>
        /\ \A k \in 1..Len(runs) : runs[k].text /= <<>>
        /\ ConcatTexts(runs) = line
        /\ (line = <<>> => runs = <<>>)
        /\ (Len(line) = 1 => Len(runs) = 1)

C1_Witness ==
    /\ Returned
    /\ Len(line) = 3
    /\ Len(runs) = 2
    /\ Len(runs[1].text) = 2

\* C2: a run boundary lies between two adjacent characters exactly when their
\* resolved feature sets differ (as mappings, and equally as sorted item
\* tuples); inside a run all characters resolve alike, adjacent runs carry
\* different feature sets, and a non-empty line has 1 + (number of differing
\* adjacent pairs) runs, at most its number of characters.
C2_BoundaryIffDiffer ==
    Returned =>
        /\ \A i \in 1..(Len(line) - 1) :
              /\ (\E k \in 1..(Len(runs) - 1) : RunEnd(runs, k) = i)
                     <=> Resolved(i) /= Resolved(i + 1)
              /\ (FeatureKey(Resolved(i)) /= FeatureKey(Resolved(i + 1)))
                     <=> Resolved(i) /= Resolved(i + 1)
        /\ \A k \in 1..(Len(runs) - 1) : runs[k].features /= runs[k + 1].features
        /\ (line /= <<>> => Len(runs) = 1 + Cardinality(DifferingPairs))
        /\ Len(runs) <= Len(line)
        /\ (Len(runs) = Len(line) => DifferingPairs = 1..(Len(line) - 1))

C2_Witness ==
    /\ Returned
    /\ Len(line) = 3
    /\ DifferingPairs = {2}
    /\ Len(runs) = 2
    /\ hot_set = {"A", "V"}
    /\ line[1] /= line[2]

\* C3 as stated: with an override mapping configured, a hot character resolves
\* to base + its overrides + calt=1 with the overrides winning EVERY key
\* conflict (the conflict with calt included), a non-hot one to {calt: 1}.
C3_OverridesWinEveryConflict ==
    (Returned /\ Truthy(hot_feature_map)) =>
        \A i \in 1..Len(line) :
            LET f == runs[RunOf(runs, i)].features
                ov == GetOrEmpty(hot_feature_map, line[i])
            IN  IF line[i] \in hot_set
                THEN /\ DOMAIN f = DOMAIN base_features \cup DOMAIN ov \cup {"calt"}
                     /\ \A t \in DOMAIN f :
                           f[t] = IF t \in DOMAIN ov THEN ov[t]
                                  ELSE IF t = "calt" THEN 1
                                  ELSE base_features[t]
                ELSE f = AlwaysOn

\* C3, amended: with a non-empty override mapping, a hot character resolves to
\* base + its overrides + calt=1, where calt is 1 whatever base and overrides
\* say and the overrides win over the base on every other tag; a non-hot
\* character resolves to exactly {calt: 1}.
C3_OverridesWinOverBase ==
    (Returned /\ Truthy(hot_feature_map)) =>
        \A i \in 1..Len(line) :
            LET f == runs[RunOf(runs, i)].features
                ov == GetOrEmpty(hot_feature_map, line[i])
            IN  IF line[i] \in hot_set
                THEN /\ DOMAIN f = DOMAIN base_features \cup DOMAIN ov \cup {"calt"}
                     /\ \A t \in DOMAIN f :
                           f[t] = IF t = "calt" THEN 1
                                  ELSE IF t \in DOMAIN ov THEN ov[t]
                                  ELSE base_features[t]
                ELSE f = AlwaysOn

C3_Witness ==
    /\ Returned
    /\ Truthy(hot_feature_map)
    /\ \E i \in 1..Len(line) :
          /\ line[i] \in hot_set
          /\ line[i] \in DOMAIN hot_feature_map
          /\ "kern" \in DOMAIN hot_feature_map[line[i]]
          /\ "kern" \in DOMAIN base_features
          /\ base_features["kern"] /= hot_feature_map[line[i]]["kern"]
          /\ runs[RunOf(runs, i)].features["kern"] = hot_feature_map[line[i]]["kern"]
    /\ \E i \in 1..Len(line) : line[i] \notin hot_set

C5_HotFlagAndFeatures ==
    Returned =>
        /\ \A k \in 1..Len(runs) :
              /\ runs[k].hot <=> (\E j \in 1..Len(runs[k].text) : runs[k].text[j] \in hot_set)
              /\ \A j \in 1..Len(runs[k].text) :
                    runs[k].features =
                        CharFeatures(runs[k].text[j], hot_set, hot_feature_map,
                                     base_features, legacy_hot_features)
        /\ \A i \in 1..(Len(line) - 1) :
              (/\ (line[i] \in hot_set) /= (line[i + 1] \in hot_set)
               /\ Resolved(i) = Resolved(i + 1))
                 => /\ RunOf(runs, i) = RunOf(runs, i + 1)
                    /\ runs[RunOf(runs, i)].hot

C5_Witness ==
    /\ Returned
    /\ line = <<"A", "x">>
    /\ hot_set = {"A"}
    /\ Len(runs) = 1
    /\ runs[1].hot

----------------------------------------------------------------------------
\* Reading the renderer's state.

\* All glyphs of a line in layout order: each run shaped as a whole with its
\* own feature set, the runs in order.
RECURSIVE ConcatGlyphs(_, _)
ConcatGlyphs(rs, f) ==
    IF rs = <<>> THEN <<>>
    ELSE shape_run(f, rs[1].text, rs[1].features) \o ConcatGlyphs(Tail(rs), f)

LineGlyphs(k) == ConcatGlyphs(RunsOf(m, m.lines[k]), font)

\* The exact pen position before glyph n of line k, whose glyphs are gl: the
\* centred start plus the scaled advances of the glyphs before it.
PenBeforeIn(gl, k, n) ==
    (m.width - m.line_widths[k]) \div 2
    + Scaled(SumAdvance(SubSeq(gl, 1, n - 1)), m.font_size)

PathsOfLine(k) == SelectSeq(svg.children, LAMBDA e : e.tag = "path" /\ e.line = k)

Abs(v) == IF v < 0 THEN -v ELSE v

\* v thousandths differ from the exact length n by at most one thousandth.
WithinOneMilli(v, n) == Abs(v * 2 * m.upem - 1000 * n) <= 2 * m.upem

InLayout == pc \in {"run", "glyph"}
CanvasDone == pc \in {"line", "run", "glyph", "write", "print"} \/ (pc = "exit" /\ m.width > 0)
Succeeded == pc = "exit" /\ r_status = Some(0)
\* The layout pass is over: the element tree is the document.
TreeDone == pc \in {"write", "print"} \/ Succeeded

\* The pen x advances by scale * x_advance for every shaped glyph of the line,
\* in order across run boundaries, path or no path; and every path's
\* translate-x is the line's start x plus the scaled advances of all glyphs
\* before it plus its own scaled x_offset, written to three decimals.
PenAndTranslate ==
    /\ InLayout =>
          LET gl == LineGlyphs(m.i)
          IN  /\ m.laid <= Len(gl)
              /\ m.x = PenBeforeIn(gl, m.i, m.laid + 1)
    /\ TreeDone =>
          \A e \in Range(svg.children) :
              LET gl == LineGlyphs(e.line)
              IN  /\ e.glyph \in 1..Len(gl)
                  /\ EmitsPath(font, gl[e.glyph])
                  /\ e.tx = Fmt3(PenBeforeIn(gl, e.line, e.glyph)
                                 + Scaled(gl[e.glyph].x_offset, m.font_size),
                                 m.upem)

\* C6 as stated: the pen and the translate-x are as above, and on every line
\* with two glyph paths the translate-x of the second minus that of the first
\* is the scaled advance of the first glyph (to the precision the transform is
\* written with).
C6_FirstDeltaIsFirstAdvance ==
    /\ PenAndTranslate
    /\ TreeDone =>
          \A k \in 1..Len(m.lines) :
              LET ps == PathsOfLine(k)
              IN  Len(ps) >= 2 =>
                      WithinOneMilli(ps[2].tx - ps[1].tx,
                                     Scaled(LineGlyphs(k)[ps[1].glyph].x_advance,
                                            m.font_size))

\* C6, amended: the pen and the translate-x are as above, and the translate-x
\* difference of the first two paths of a line is, to 0.001, the scaled
\* advances of the glyphs from the first path's glyph up to the second path's
\* glyph plus the difference of their scaled x_offsets.
C6_PenAndTranslate ==
    /\ PenAndTranslate
    /\ TreeDone =>
          \A k \in 1..Len(m.lines) :
              LET ps == PathsOfLine(k)
                  gl == LineGlyphs(k)
              IN  Len(ps) >= 2 =>
                      WithinOneMilli(
                          ps[2].tx - ps[1].tx,
                          Scaled(SumAdvance(SubSeq(gl, ps[1].glyph, ps[2].glyph - 1))
                                 + gl[ps[2].glyph].x_offset
                                 - gl[ps[1].glyph].x_offset, m.font_size))

\* A kerned pair inside one run, with pathless glyphs after it: the second
\* path sits closer than the unkerned advance, and the pen has passed the
\* four spaces.
C6_Witness ==
    /\ Succeeded
    /\ font = "prop"
    /\ Len(m.lines) = 2
    /\ m.lines[1] = <<"A", "V">> \o FourSpaces
    /\ m.lines[2] = <<"A">> \o FourSpaces \o <<"V">>
    /\ Len(PathsOfLine(1)) = 2
    /\ PathsOfLine(1)[2].tx - PathsOfLine(1)[1].tx
           < Fmt3(Scaled(FontTable(font).advance["A"], m.font_size), m.upem)
    /\ PathsOfLine(2)[2].glyph = 6

RECURSIVE CountGlyphs(_)
CountGlyphs(k) == IF k = 0 THEN 0 ELSE CountGlyphs(k - 1) + Len(LineGlyphs(k))

\* C7: on every successful run the document is a namespaced svg root with
\* width, height and viewBox, exactly one background rectangle and exactly
\* one path per shaped glyph, each with a fill and a transform; it is written
\* to the output path, and only then is the confirmation printed.
C7_OutputDocument ==
    /\ Succeeded =>
          /\ {"xmlns", "width", "height", "viewBox"} \subseteq DOMAIN svg.attrib
          /\ Len(SelectSeq(svg.children, LAMBDA e : e.tag = "rect")) = 1
          /\ Len(SelectSeq(svg.children, LAMBDA e : e.tag = "path"))
                 = CountGlyphs(Len(m.lines))
          /\ \A e \in Range(svg.children) :
                e.tag = "path" => {"fill", "tx", "ty", "scale"} \subseteq DOMAIN e
          /\ out_file = Some(svg)
    /\ r_stdout /= <<>> => out_file /= None

\* Whether the configuration holds the key at the end of the path.
RECURSIVE Present(_, _)
Present(d, path) ==
    \/ path = <<>>
    \/ /\ Has(d, path[1])
       /\ Present(d[path[1]], Tail(path))

\* The theme the output file name selects, read off the name itself.
SelectedTheme == IF argv.out_path = <<"out", "dark", "svg">> THEN "dark" ELSE "light"

FailedByKeyError ==
    /\ r_status = Some(1)
    /\ Len(r_stderr) = 1
    /\ r_stderr[1][1] = "KeyError"
    /\ out_file = None
    /\ r_stdout = <<>>

Ran == pc = "exit" /\ argv.n = 4

\* C8 as stated: a configuration that lacks any one of the required keys
\* makes the renderer end with a non-zero status through a lookup failure,
\* whatever the slope and the output file name.
C8_AnyRequiredKeyFails ==
    (Ran /\ \E path \in RequiredPaths : ~Present(config, path)) => FailedByKeyError

\* The keys main() subscripts before the layout pass.
AlwaysLooked ==
    {<<"themes">>, <<"themes", SelectedTheme>>, <<"hotChars">>, <<"textGrid">>,
     <<"fontSize">>, <<"lineHeight">>, <<"width">>, <<"height">>}

\* Some run of some line is hot (h = TRUE) or not hot (h = FALSE).
SomeRun(h) ==
    \E k \in 1..Len(m.lines) :
        \E r \in Range(RunsOf(m, m.lines[k])) : r.hot = h

\* C8, amended: lacking themes, the theme the file name selects, hotChars,
\* textGrid, fontSize, lineHeight, width or height ends the renderer with a
\* non-zero status through an uncaught KeyError, nothing written or printed;
\* lacking the selected theme's body (stress) does so exactly when some run
\* is not hot (is hot); lacking background, or anything of the theme that is
\* not selected, does not fail: the renderer ends with status 0.
C8_LookedUpKeysFail ==
    Ran =>
        IF \E path \in AlwaysLooked : ~Present(config, path)
        THEN FailedByKeyError
        ELSE IF \/ ~Present(config, <<"themes", SelectedTheme, "body">>) /\ SomeRun(FALSE)
                \/ ~Present(config, <<"themes", SelectedTheme, "stress">>) /\ SomeRun(TRUE)
        THEN FailedByKeyError
        ELSE r_status = Some(0) /\ r_stdout = <<"Wrote">> /\ out_file = Some(svg)

\* The theme the dark output name selects is missing, the other is there.
C8_Witness ==
    /\ Ran
    /\ FailedByKeyError
    /\ argv.out_path = <<"out", "dark", "svg">>
    /\ Present(config, <<"themes", "light">>)
    /\ ~Present(config, <<"themes", "dark">>)

====
